---- MODULE Spec2Model ----
(***************************************************************************)
(* A model of gam_mcp/server.py: the command construction, execution and   *)
(* result-normalisation engine of the GAM MCP server.                      *)
(*                                                                         *)
(* Python strings are TLA+ strings, handled character by character with    *)
(* Len, \o and SubSeq.  An Optional value is a set with at most one        *)
(* element: {} is None and {v} is the value v.                             *)
(***************************************************************************)
EXTENDS Integers, Sequences, FiniteSets, TLC

VARIABLES
    pc,             \* "idle" | "wait" (blocked in subprocess.run) | "returned" | "raised"
    op,             \* the operation being served
    p,              \* its parameters
    step,           \* which run_gam_command call of the handler is in progress
    cmd,            \* the command string the handler last passed to run_gam_command
    outs,           \* the outcome dicts run_gam_command has returned in this call
    hows,           \* how each outcome came about: [kind, status], status the child's
                    \* exit status if it ran to completion
    results,        \* offboard_user's list `results`
    handed,         \* the argument lists handed to subprocess.run in this call
    spawned,        \* how many child processes this call has started
    running,        \* child processes started by the server that are still alive
    ret,            \* the string returned to the caller
    exc,            \* the exception that left the handler ("" for none)
    nCalls,         \* calls served so far
    prevConfirmed   \* an earlier call passed a confirmation gate and launched the tool

vars == <<pc, op, p, step, cmd, outs, hows, results, handed, spawned, running, ret, exc,
          nCalls, prevConfirmed>>

\* How many calls one behaviour serves.
MaxCalls == 3

(***************************************************************************)
(* Strings                                                                 *)
(***************************************************************************)
Ch(s, i) == SubSeq(s, i, i)

Contains(s, sub) ==
    \E i \in 1..(Len(s) - Len(sub) + 1) : SubSeq(s, i, i + Len(sub) - 1) = sub

UpperChars == "ABCDEFGHIJKLMNOPQRSTUVWXYZ"
LowerChars == "abcdefghijklmnopqrstuvwxyz"

\* str.lower() of one character
LowerCh(c) ==
    IF \E i \in 1..26 : Ch(UpperChars, i) = c
    THEN Ch(LowerChars, CHOOSE i \in 1..26 : Ch(UpperChars, i) = c)
    ELSE c

RECURSIVE lower(_)
lower(s) == IF s = "" THEN "" ELSE LowerCh(Ch(s, 1)) \o lower(SubSeq(s, 2, Len(s)))

\* str.upper() of one character
UpperCh(c) ==
    IF \E i \in 1..26 : Ch(LowerChars, i) = c
    THEN Ch(UpperChars, CHOOSE i \in 1..26 : Ch(LowerChars, i) = c)
    ELSE c

RECURSIVE upper(_)
upper(s) == IF s = "" THEN "" ELSE UpperCh(Ch(s, 1)) \o upper(SubSeq(s, 2, Len(s)))

Digit(n) == Ch("0123456789", n + 1)

RECURSIVE NatStr(_)
NatStr(n) == IF n < 10 THEN Digit(n) ELSE NatStr(n \div 10) \o Digit(n % 10)

\* str(n) / f"{n}" of an int
IntStr(n) == IF n < 0 THEN "-" \o NatStr(-n) ELSE NatStr(n)

\* "\n".join(xs)
RECURSIVE Join(_, _)
Join(xs, sep) ==
    IF xs = <<>> THEN ""
    ELSE IF Len(xs) = 1 THEN xs[1]
    ELSE xs[1] \o sep \o Join(Tail(xs), sep)

None == {}
Some(v) == {v}
The(o) == CHOOSE v \in o : TRUE
\* Python truthiness of an Optional[str]: None and "" are false
Truthy(o) == o # {} /\ o # {""}
\* Python truthiness of an Optional[int]: None and 0 are false
TruthyInt(o) == o # {} /\ o # {0}
\* str(x) of an Optional[str]
OptStr(o) == IF o = {} THEN "None" ELSE The(o)

(***************************************************************************)
(* shlex.split(command): POSIX mode, whitespace_split, no comments         *)
(***************************************************************************)
Whitespace == {" ", "\t", "\r", "\n"}

\* one step of the lexer: the character c read in state st.state, with the token
\* in progress st.tok and the finished tokens st.toks
LexChar(st, c) ==
    CASE st.state = "ws" ->
            IF c \in Whitespace THEN st
            ELSE IF c = "\\" THEN [st EXCEPT !.state = "esc_a", !.tok = ""]
            ELSE IF c = "\"" THEN [st EXCEPT !.state = "dq", !.tok = ""]
            ELSE IF c = "'" THEN [st EXCEPT !.state = "sq", !.tok = ""]
            ELSE [st EXCEPT !.state = "a", !.tok = c]
      [] st.state = "a" ->
            IF c \in Whitespace
            THEN [state |-> "ws", tok |-> "", toks |-> Append(st.toks, st.tok)]
            ELSE IF c = "\\" THEN [st EXCEPT !.state = "esc_a"]
            ELSE IF c = "\"" THEN [st EXCEPT !.state = "dq"]
            ELSE IF c = "'" THEN [st EXCEPT !.state = "sq"]
            ELSE [st EXCEPT !.tok = @ \o c]
      [] st.state = "dq" ->
            IF c = "\"" THEN [st EXCEPT !.state = "a"]
            ELSE IF c = "\\" THEN [st EXCEPT !.state = "esc_dq"]
            ELSE [st EXCEPT !.tok = @ \o c]
      [] st.state = "sq" ->
            IF c = "'" THEN [st EXCEPT !.state = "a"]
            ELSE [st EXCEPT !.tok = @ \o c]
      [] st.state = "esc_a" -> [st EXCEPT !.state = "a", !.tok = @ \o c]
      [] OTHER ->  \* an escape inside double quotes
            IF c \in {"\\", "\""} THEN [st EXCEPT !.state = "dq", !.tok = @ \o c]
            ELSE [st EXCEPT !.state = "dq", !.tok = @ \o "\\" \o c]

LexStates == {"ws", "a", "dq", "sq", "esc_a", "esc_dq"}

\* the lexer run over s[lo..hi] from state st, left to right; the range is halved,
\* and the left half finished first, to keep the evaluation shallow
RECURSIVE LexRange(_, _, _, _)
LexRange(s, lo, hi, st) ==
    IF lo > hi THEN st
    ELSE IF lo = hi THEN LexChar(st, Ch(s, lo))
    ELSE LET mid  == (lo + hi) \div 2
             left == LexRange(s, lo, mid, st)
         IN  IF left.state \in LexStates THEN LexRange(s, mid + 1, hi, left) ELSE left

\* end of input: the last token is emitted, an open quote or escape is a ValueError
LexEnd(st) ==
    CASE st.state = "ws" -> [ok |-> TRUE, toks |-> st.toks, err |-> ""]
      [] st.state = "a"  -> [ok |-> TRUE, toks |-> Append(st.toks, st.tok), err |-> ""]
      [] st.state \in {"dq", "sq"} ->
            [ok |-> FALSE, toks |-> <<>>, err |-> "No closing quotation"]
      [] OTHER -> [ok |-> FALSE, toks |-> <<>>, err |-> "No escaped character"]

shlex_split(command) ==
    LexEnd(LexRange(command, 1, Len(command), [state |-> "ws", tok |-> "", toks |-> <<>>]))

(***************************************************************************)
(* date.today() - timedelta(days=n), and date.isoformat()                  *)
(***************************************************************************)
IsLeap(y) == y % 4 = 0 /\ (y % 100 # 0 \/ y % 400 = 0)

DaysInMonth(y, m) ==
    IF m = 2 THEN (IF IsLeap(y) THEN 29 ELSE 28)
    ELSE IF m \in {4, 6, 9, 11} THEN 30 ELSE 31

RECURSIVE DaysBeforeMonth(_, _)
DaysBeforeMonth(y, m) ==
    IF m = 1 THEN 0 ELSE DaysBeforeMonth(y, m - 1) + DaysInMonth(y, m - 1)

DaysBeforeYear(year) ==
    LET y == year - 1 IN y * 365 + (y \div 4) - (y \div 100) + (y \div 400)

ymd2ord(d) == DaysBeforeYear(d[1]) + DaysBeforeMonth(d[1], d[2]) + d[3]

ord2ymd(ordinal) ==
    LET n0   == ordinal - 1
        n400 == n0 \div 146097
        r400 == n0 % 146097
        n100 == r400 \div 36524
        r100 == r400 % 36524
        n4   == r100 \div 1461
        r4   == r100 % 1461
        n1   == r4 \div 365
        n    == r4 % 365
        year == n400 * 400 + 1 + n100 * 100 + n4 * 4 + n1
    IN  IF n1 = 4 \/ n100 = 4 THEN <<year - 1, 12, 31>>
        ELSE LET month == CHOOSE m \in 1..12 :
                              /\ DaysBeforeMonth(year, m) <= n
                              /\ n < DaysBeforeMonth(year, m) + DaysInMonth(year, m)
             IN <<year, month, n - DaysBeforeMonth(year, month) + 1>>

\* date.min and date.max as ordinals: outside them date arithmetic raises OverflowError
DateInRange(ordinal) == 1 <= ordinal /\ ordinal <= 3652059

Pad2(n) == Digit(n \div 10) \o Digit(n % 10)
Pad4(n) == Pad2(n \div 100) \o Pad2(n % 100)
isoformat(d) == Pad4(d[1]) \o "-" \o Pad2(d[2]) \o "-" \o Pad2(d[3])

(***************************************************************************)
(* run_gam_command and format_result                                       *)
(***************************************************************************)
DefaultTimeout == 300

\* lines 38-40: the argument list handed to subprocess.run
AddPrefix(args) ==
    IF args # <<>> /\ lower(args[1]) # "gam" THEN <<"gam">> \o args ELSE args

\* stderr surfaced whatever the exit status
Completed_AlwaysStderr(code, out, err) ==
    [success   |-> code = 0,
     output    |-> out,
     error     |-> Some(err),
     exit_code |-> code]

\* lines 49-54: the process ran to completion
Completed(code, out, err) ==
    [success   |-> code = 0,
     output    |-> out,
     error     |-> IF code # 0 THEN Some(err) ELSE None,
     exit_code |-> code]

\* lines 55-61: subprocess.TimeoutExpired
TimedOut(timeout) ==
    [success   |-> FALSE,
     output    |-> "",
     error     |-> Some("Command timed out after " \o IntStr(timeout) \o " seconds"),
     exit_code |-> -1]

\* lines 62-68: FileNotFoundError
NotFound ==
    [success   |-> FALSE,
     output    |-> "",
     error     |-> Some("GAM not found. Ensure GAMADV-XTD3 is installed and in PATH."),
     exit_code |-> -1]

\* the child abandoned on timeout
KillOnTimeout_Abandon(alive) == alive

\* subprocess.run's timeout handling: process.kill(), process.wait(), re-raise.
\* The number of live children after the deadline passed for one of them.
KillOnTimeout(alive) == alive - 1

\* a normalizer without the `or "Command completed successfully."` of line 74
format_result_NoCanned(result) ==
    IF result.success THEN result.output
    ELSE "Error (exit " \o IntStr(result.exit_code) \o "): " \o OptStr(result.error)

format_result(result) ==
    IF result.success
    THEN (IF result.output # "" THEN result.output ELSE "Command completed successfully.")
    ELSE "Error (exit " \o IntStr(result.exit_code) \o "): " \o OptStr(result.error)

(***************************************************************************)
(* The operations                                                          *)
(***************************************************************************)
COMMON_USER_FIELDS == "primaryemail,fullname,suspended,lastlogintime,orgunitpath"

GatedOps == {"delete_user", "offboard_user"}
Tools == {"delete_user", "sign_out_user", "revoke_tokens", "offboard_user",
          "list_users", "run_gam", "create_user", "update_user", "add_group_member"}
\* run_gam_command is also callable on its own (it returns the outcome dict)
Ops == Tools \cup {"run_gam_command"}

\* a gate that stays open once a confirmed call went through
SafetyCheck_Sticky(o, q) ==
    o \in {"delete_user", "offboard_user"} /\ ~(q.confirm \/ prevConfirmed)

\* `if not confirm: return <preview>` of delete_user (464) and offboard_user (531);
\* sign_out_user and revoke_tokens take no confirm parameter and have no such check
SafetyCheck(o, q) == o \in {"delete_user", "offboard_user"} /\ ~q.confirm

Preview(o, q) ==
    IF o = "delete_user"
    THEN "SAFETY CHECK: To delete " \o q.email
         \o ", call this tool again with confirm=True. This action CANNOT be undone!"
    ELSE "OFFBOARDING PREVIEW for " \o q.email
         \o ":\n1. Sign out all active sessions"
         \o "\n2. Revoke all OAuth tokens and app passwords"
         \o "\n3. Suspend the account"
         \o "\n\nTo proceed, call offboard_user with confirm=True"

\* two independent ifs instead of if / elif
SuspensionFilter_Both(q) ==
    (IF q.suspended_only THEN " issuspended true" ELSE "")
    \o (IF q.active_only THEN " issuspended false" ELSE "")

\* list_users, lines 247-251
SuspensionFilter(q) ==
    IF q.suspended_only THEN " issuspended true"
    ELSE IF q.active_only THEN " issuspended false"
    ELSE ""

\* list_users, line 259
cutoff_date(q) == isoformat(ord2ymd(ymd2ord(q.today) - The(q.inactive_days)))

\* list_users, lines 258-263: the value of `query` after the inactive-days filter
ComposeQuery(q) ==
    IF TruthyInt(q.inactive_days)
    THEN IF Truthy(q.query)
         THEN Some(The(q.query) \o " lastLoginTime<" \o cutoff_date(q))
         ELSE Some("lastLoginTime<" \o cutoff_date(q))
    ELSE q.query

\* list_users, lines 239-270: the command string
list_users_cmd(q) ==
    "gam print users"
    \o (IF Truthy(q.fields) THEN " fields " \o The(q.fields)
        ELSE " fields " \o COMMON_USER_FIELDS)
    \o SuspensionFilter(q)
    \o (IF Truthy(q.ou) THEN " limittoou \"" \o The(q.ou) \o "\"" ELSE "")
    \o (IF Truthy(ComposeQuery(q)) THEN " query \"" \o The(ComposeQuery(q)) \o "\"" ELSE "")
    \o (IF TruthyInt(q.max_results) THEN " maxresults " \o IntStr(The(q.max_results)) ELSE "")

\* a builder that writes the keyword of an unset org_unit with an empty value
create_user_cmd_EmptyOrg(q) ==
    "gam create user " \o q.email
    \o " firstname \"" \o q.first_name \o "\" lastname \"" \o q.last_name \o "\""
    \o " password " \o (IF Truthy(q.password) THEN The(q.password) ELSE "random")
    \o " org \"" \o (IF Truthy(q.org_unit) THEN The(q.org_unit) ELSE "") \o "\""
    \o (IF Truthy(q.recovery_email) THEN " recoveryemail " \o The(q.recovery_email) ELSE "")

\* create_user, lines 328-334: the command string
create_user_cmd(q) ==
    "gam create user " \o q.email
    \o " firstname \"" \o q.first_name \o "\" lastname \"" \o q.last_name \o "\""
    \o " password " \o (IF Truthy(q.password) THEN The(q.password) ELSE "random")
    \o (IF Truthy(q.org_unit) THEN " org \"" \o The(q.org_unit) \o "\"" ELSE "")
    \o (IF Truthy(q.recovery_email) THEN " recoveryemail " \o The(q.recovery_email) ELSE "")

\* update_user, lines 364-375: the command string
update_user_cmd(q) ==
    "gam update user " \o q.email
    \o (IF Truthy(q.first_name_opt) THEN " firstname \"" \o The(q.first_name_opt) \o "\"" ELSE "")
    \o (IF Truthy(q.last_name_opt) THEN " lastname \"" \o The(q.last_name_opt) \o "\"" ELSE "")
    \o (IF Truthy(q.org_unit) THEN " org \"" \o The(q.org_unit) \o "\"" ELSE "")
    \o (IF Truthy(q.recovery_email) THEN " recoveryemail " \o The(q.recovery_email) ELSE "")
    \o (IF Truthy(q.recovery_phone) THEN " recoveryphone " \o The(q.recovery_phone) ELSE "")

\* update_user, line 377: `if cmd == f"gam update user {email}"`
NothingToUpdate(q) == update_user_cmd(q) = "gam update user " \o q.email

\* a membership test that skips the case folding of line 654
ValidRole_CaseSensitive(q) == q.role \in {"MEMBER", "MANAGER", "OWNER"}

\* add_group_member, lines 654-655: role = role.upper(); role in the accepted list
ValidRole(q) == upper(q.role) \in {"MEMBER", "MANAGER", "OWNER"}

\* add_group_member, line 658: the command string
add_group_member_cmd(q) ==
    "gam update group " \o q.group_email \o " add " \o lower(upper(q.role))
    \o " " \o q.member_email

\* the handler returns before building or running any command:
\* update_user line 378, add_group_member line 656
Rejects(o, q) ==
    \/ o = "update_user" /\ NothingToUpdate(q)
    \/ o = "add_group_member" /\ ~ValidRole(q)

Rejection(o, q) ==
    IF o = "update_user" THEN "Error: No attributes specified to update."
    ELSE "Invalid role '" \o upper(q.role) \o "'. Must be MEMBER, MANAGER, or OWNER."

\* the account suspended first
OffboardCmd_SuspendFirst(k, email) ==
    CASE k = 1 -> "gam update user " \o email \o " suspended on"
      [] k = 2 -> "gam user " \o email \o " signout"
      [] OTHER -> "gam user " \o email \o " deprovision"

\* offboard_user, lines 542, 546, 550: the command of step k
OffboardCmd(k, email) ==
    CASE k = 1 -> "gam user " \o email \o " signout"
      [] k = 2 -> "gam user " \o email \o " deprovision"
      [] OTHER -> "gam update user " \o email \o " suspended on"

StepLabel(k) ==
    CASE k = 1 -> "1. Sign out: " [] k = 2 -> "2. Revoke tokens: " [] OTHER -> "3. Suspend: "

\* offboard_user, lines 543, 547, 551: the entry appended to `results`
ReportLine(k, r) ==
    StepLabel(k) \o (IF r.success THEN "Success" ELSE "FAILED - " \o OptStr(r.error))

\* how many run_gam_command calls the handler makes
NSteps(o) == IF o = "offboard_user" THEN 3 ELSE 1

\* the command string of the handler's k-th run_gam_command call
Command(o, q, k) ==
    CASE o = "delete_user"   -> "gam delete user " \o q.email
      [] o = "sign_out_user" -> "gam user " \o q.email \o " signout"
      [] o = "revoke_tokens" -> "gam user " \o q.email \o " deprovision"
      [] o = "offboard_user" -> OffboardCmd(k, q.email)
      [] o = "list_users"    -> list_users_cmd(q)
      [] o = "create_user"   -> create_user_cmd(q)
      [] o = "update_user"   -> update_user_cmd(q)
      [] o = "add_group_member" -> add_group_member_cmd(q)
      [] OTHER               -> q.command

\* the timeout the handler passes: only a direct call overrides the default
Timeout(o, q) == IF o = "run_gam_command" THEN q.timeout ELSE DefaultTimeout

\* the handler's return statement, given the outcomes it collected
Finish(o, q, os, rs) ==
    CASE o = "delete_user" ->
            IF os[1].success
            THEN "User " \o q.email \o " has been DELETED. This cannot be undone."
            ELSE "Error deleting user: " \o OptStr(os[1].error)
      [] o = "sign_out_user" ->
            IF os[1].success
            THEN "User " \o q.email \o " has been signed out from ALL sessions immediately."
            ELSE "Error signing out user: " \o OptStr(os[1].error)
      [] o = "revoke_tokens" ->
            IF os[1].success
            THEN "All OAuth tokens and app passwords revoked for " \o q.email
                 \o ". They will need to re-authorize apps."
            ELSE "Error revoking tokens: " \o OptStr(os[1].error)
      [] o = "offboard_user" ->
            "Offboarding complete for " \o q.email \o ":\n" \o Join(rs, "\n")
      [] o = "create_user" ->
            IF os[1].success
            THEN "User " \o q.email \o " created successfully.\n" \o os[1].output
            ELSE "Error creating user: " \o OptStr(os[1].error)
      [] o = "add_group_member" ->
            IF os[1].success
            THEN "Added " \o q.member_email \o " to " \o q.group_email
                 \o " as " \o upper(q.role) \o "."
            ELSE "Error adding member: " \o OptStr(os[1].error)
      [] o \in {"list_users", "run_gam", "update_user"} -> format_result(os[1])
      [] OTHER -> ""   \* run_gam_command returns the dict os[1], not a string

(***************************************************************************)
(* Inputs: what a caller passes, and what the environment answers          *)
(***************************************************************************)
\* an ordinary address, and one with an unbalanced double quote
Emails == {"u@d.io", "u\"d"}
\* raw commands: empty, without and with the launch token, upper case, unbalanced quote
Commands == {"", "info domain", "gam info domain", "GAM info domain", "\"info"}
Timeouts == {5, DefaultTimeout}
Queries == {None, Some("givenname:John")}
FieldLists == {None, Some("primaryemail")}
OrgUnits == {None, Some("/Sales")}
MaxResults == {None, Some(10)}
InactiveDays == {None, Some(0), Some(1), Some(90), Some(800000)}
\* what date.today() may return
Dates == {<<2024, 6, 1>>, <<2024, 3, 1>>}
\* what a child that runs to completion may yield: exit status, stdout, stderr
Exits == {[code |-> 0, out |-> "", err |-> ""],
          [code |-> 0, out |-> "ok", err |-> "warn"],
          [code |-> 1, out |-> "", err |-> "boom"],
          [code |-> 2, out |-> "part", err |-> ""]}

\* free text for a required name: plain, with a space, empty, with an unbalanced
\* double quote, and with quotes that close and reopen the builder's own
FirstNames == {"Al", "Al Bo", "", "O\"B", "Al\" suspended \"on"}
LastNames == {"Li"}
Passwords == {None, Some("pw1")}
RecoveryEmails == {None, Some("r@d.io")}
RecoveryPhones == {None, Some("+15550100")}
OptFirstNames == {None, Some(""), Some("Al Bo"), Some("O\"B")}
OptLastNames == {None, Some("Li")}
Roles == {"MEMBER", "manager", "Owner", "admin", ""}

NoParams ==
    [email |-> "", confirm |-> FALSE, command |-> "", timeout |-> DefaultTimeout,
     first_name |-> "", last_name |-> "", password |-> None, org_unit |-> None,
     recovery_email |-> None, recovery_phone |-> None,
     first_name_opt |-> None, last_name_opt |-> None,
     group_email |-> "", member_email |-> "", role |-> "MEMBER",
     fields |-> None, query |-> None, suspended_only |-> FALSE, active_only |-> FALSE,
     ou |-> None, max_results |-> None, inactive_days |-> None, today |-> <<2024, 6, 1>>]

\* the calls of operation o; an operation without a confirm parameter has it unset
ParamsOf(o) ==
    CASE o \in {"delete_user", "offboard_user"} ->
            {[NoParams EXCEPT !.email = e, !.confirm = c] : e \in Emails, c \in BOOLEAN}
      [] o \in {"sign_out_user", "revoke_tokens"} ->
            {[NoParams EXCEPT !.email = e] : e \in Emails}
      [] o = "list_users" ->
            {[NoParams EXCEPT !.fields = f, !.query = qu, !.suspended_only = so,
                              !.active_only = ao, !.ou = u, !.max_results = m,
                              !.inactive_days = d, !.today = t] :
                f \in FieldLists, qu \in Queries, so \in BOOLEAN, ao \in BOOLEAN,
                u \in OrgUnits, m \in MaxResults, d \in InactiveDays, t \in Dates}
      [] o = "run_gam" -> {[NoParams EXCEPT !.command = c] : c \in Commands}
      [] o = "create_user" ->
            {[NoParams EXCEPT !.email = "u@d.io", !.first_name = f, !.last_name = l,
                              !.password = pw, !.org_unit = u, !.recovery_email = r] :
                f \in FirstNames, l \in LastNames, pw \in Passwords,
                u \in OrgUnits, r \in RecoveryEmails}
      [] o = "update_user" ->
            {[NoParams EXCEPT !.email = "u@d.io", !.first_name_opt = f,
                              !.last_name_opt = l, !.org_unit = u,
                              !.recovery_email = r, !.recovery_phone = ph] :
                f \in OptFirstNames, l \in OptLastNames, u \in OrgUnits,
                r \in RecoveryEmails, ph \in RecoveryPhones}
      [] o = "add_group_member" ->
            {[NoParams EXCEPT !.group_email = "g@d.io", !.member_email = "u@d.io",
                              !.role = ro] : ro \in Roles}
      [] OTHER -> {[NoParams EXCEPT !.command = c, !.timeout = t] :
                      c \in {"info domain"}, t \in Timeouts}

(***************************************************************************)
(* The handler of one call, run up to the point where it blocks in         *)
(* subprocess.run, returns or raises.  found[k] tells whether the          *)
(* executable is found when the k-th command is launched.                  *)
(***************************************************************************)
Fresh ==
    [pc |-> "idle", step |-> 0, cmd |-> "", outs |-> <<>>, hows |-> <<>>, results |-> <<>>,
     handed |-> <<>>, spawned |-> 0, running |-> 0, ret |-> "", exc |-> ""]

\* the handler takes the outcome of its k-th run_gam_command call
Record(o, k, st, outcome, how) ==
    [st EXCEPT !.outs = Append(@, outcome),
               !.hows = Append(@, how),
               !.results = IF o = "offboard_user"
                           THEN Append(@, ReportLine(k, outcome)) ELSE @]

\* a workflow that stops at the first failed step
RECURSIVE Run_ShortCircuit(_, _, _, _, _)
Run_ShortCircuit(o, q, k, st, found) ==
    IF k > NSteps(o) \/ (k > 1 /\ ~st.outs[k - 1].success)
    THEN [st EXCEPT !.pc = "returned", !.ret = Finish(o, q, st.outs, st.results)]
    ELSE LET sp == shlex_split(Command(o, q, k)) IN
         IF ~sp.ok
         THEN [st EXCEPT !.pc = "raised", !.exc = "ValueError", !.cmd = Command(o, q, k)]
         ELSE LET args == AddPrefix(sp.toks)
                  st1  == [st EXCEPT !.handed = Append(@, args), !.cmd = Command(o, q, k)]
              IN  IF args = <<>>
                  THEN [st1 EXCEPT !.pc = "raised", !.exc = "IndexError"]
                  ELSE IF ~found[k]
                  THEN Run_ShortCircuit(o, q, k + 1,
                           Record(o, k, st1, NotFound, [kind |-> "notfound", status |-> None]),
                           found)
                  ELSE [st1 EXCEPT !.pc = "wait", !.step = k,
                                   !.spawned = @ + 1, !.running = @ + 1]

\* run_gam_command calls k, k+1, ... of the handler, then its return statement
RECURSIVE Run(_, _, _, _, _)
Run(o, q, k, st, found) ==
    IF k > NSteps(o)
    THEN [st EXCEPT !.pc = "returned", !.ret = Finish(o, q, st.outs, st.results)]
    ELSE LET sp == shlex_split(Command(o, q, k)) IN
         IF ~sp.ok
         THEN [st EXCEPT !.pc = "raised", !.exc = "ValueError", !.cmd = Command(o, q, k)]
         ELSE LET args == AddPrefix(sp.toks)
                  st1  == [st EXCEPT !.handed = Append(@, args), !.cmd = Command(o, q, k)]
              IN  IF args = <<>>
                  THEN [st1 EXCEPT !.pc = "raised", !.exc = "IndexError"]
                  ELSE IF ~found[k]
                  THEN Run(o, q, k + 1, Record(o, k, st1, NotFound, [kind |-> "notfound", status |-> None]), found)
                  ELSE [st1 EXCEPT !.pc = "wait", !.step = k,
                                   !.spawned = @ + 1, !.running = @ + 1]

\* the handler from its first line
Handle(o, q, alive, found) ==
    LET st == [Fresh EXCEPT !.running = alive] IN
    IF SafetyCheck(o, q)
    THEN [st EXCEPT !.pc = "returned", !.ret = Preview(o, q)]
    ELSE IF Rejects(o, q)
    THEN [st EXCEPT !.pc = "returned", !.ret = Rejection(o, q)]
    ELSE IF o = "list_users" /\ TruthyInt(q.inactive_days)
            /\ ~DateInRange(ymd2ord(q.today) - The(q.inactive_days))
    THEN [st EXCEPT !.pc = "raised", !.exc = "OverflowError"]
    ELSE Run(o, q, 1, st, found)

Here == [pc |-> pc, step |-> step, cmd |-> cmd, outs |-> outs, hows |-> hows, results |-> results,
         handed |-> handed, spawned |-> spawned, running |-> running,
         ret |-> ret, exc |-> exc]

Become(st) ==
    /\ pc' = st.pc
    /\ step' = st.step
    /\ cmd' = st.cmd
    /\ outs' = st.outs
    /\ hows' = st.hows
    /\ results' = st.results
    /\ handed' = st.handed
    /\ spawned' = st.spawned
    /\ running' = st.running
    /\ ret' = st.ret
    /\ exc' = st.exc

(***************************************************************************)
(* Actions                                                                 *)
(***************************************************************************)
Init ==
    /\ pc = "idle"
    /\ op = ""
    /\ p = NoParams
    /\ step = 0
    /\ cmd = ""
    /\ outs = <<>>
    /\ hows = <<>>
    /\ results = <<>>
    /\ handed = <<>>
    /\ spawned = 0
    /\ running = 0
    /\ ret = ""
    /\ exc = ""
    /\ nCalls = 0
    /\ prevConfirmed = FALSE

\* the transport dispatches a call to its handler
Invoke ==
    /\ pc = "idle"
    /\ nCalls < MaxCalls
    /\ \E o \in Ops : \E q \in ParamsOf(o) : \E found \in [1..NSteps(o) -> BOOLEAN] :
          /\ op' = o
          /\ p' = q
          /\ Become(Handle(o, q, running, found))
    /\ nCalls' = nCalls + 1
    /\ UNCHANGED prevConfirmed

\* the child exits; subprocess.run returns and the handler goes on
ChildExit ==
    /\ pc = "wait"
    /\ \E e \in Exits : \E found \in [1..NSteps(op) -> BOOLEAN] :
          Become(Run(op, p, step + 1,
                     Record(op, step, [Here EXCEPT !.running = @ - 1],
                            Completed(e.code, e.out, e.err),
                            [kind |-> "completed", status |-> Some(e.code)]),
                     found))
    /\ UNCHANGED <<op, p, nCalls, prevConfirmed>>

\* the deadline passes; subprocess.run kills the child and raises TimeoutExpired
ChildTimeout ==
    /\ pc = "wait"
    /\ \E found \in [1..NSteps(op) -> BOOLEAN] :
          Become(Run(op, p, step + 1,
                     Record(op, step, [Here EXCEPT !.running = KillOnTimeout(@)],
                            TimedOut(Timeout(op, p)), [kind |-> "timeout", status |-> None]),
                     found))
    /\ UNCHANGED <<op, p, nCalls, prevConfirmed>>

\* the transport delivers the result (or the error) and the call's frame is gone
Reply ==
    /\ pc \in {"returned", "raised"}
    /\ op' = ""
    /\ p' = NoParams
    /\ Become([Fresh EXCEPT !.running = running])
    /\ prevConfirmed' = (prevConfirmed \/ (op \in GatedOps /\ p.confirm /\ spawned > 0))
    /\ UNCHANGED nCalls

Next == Invoke \/ ChildExit \/ ChildTimeout \/ Reply

Spec == Init /\ [][Next]_vars

(***************************************************************************)
(* Properties                                                              *)
(***************************************************************************)
\* the argument list of the child in flight (the last one handed to subprocess.run)
Argv == handed[Len(handed)]
EndsWith(a, tail) ==
    Len(a) >= Len(tail) /\ SubSeq(a, Len(a) - Len(tail) + 1, Len(a)) = tail
Kinds == [k \in 1..Len(hows) |-> hows[k].kind]

\* C1: in every call sequence, a delete_user or offboard_user call without confirm
\* hands nothing to subprocess.run, starts no child, and has returned a preview
\* that contains the word "confirm" -- also after an earlier confirmed call.
C1_UnconfirmedNeverExecutes ==
    (op \in GatedOps /\ ~p.confirm) =>
        /\ handed = <<>>
        /\ spawned = 0
        /\ pc = "returned"
        /\ Contains(ret, "confirm")

C1_Witness ==
    /\ prevConfirmed
    /\ op = "offboard_user"
    /\ ~p.confirm
    /\ pc = "returned"

\* C2: delete_user, sign_out_user and revoke_tokens launch the tool only with the
\* caller's confirmation flag set.
C2_DestructiveOnlyIfConfirmed ==
    (op \in {"delete_user", "sign_out_user", "revoke_tokens"} /\ handed # <<>>) => p.confirm

\* C3: a confirmed offboard_user call that got an outcome for a step goes on to the
\* next one whatever that outcome was, and when it has returned, the three commands
\* were handed to subprocess.run in declaration order and the report has exactly
\* three entries, entry k showing "Success" or the error text of step k.
C3_AllStepsRun ==
    (op = "offboard_user" /\ p.confirm) =>
        /\ pc = "wait" => (Len(handed) = step /\ Len(outs) = step - 1)
        /\ (pc = "raised") => outs = <<>>
        /\ (pc = "returned") =>
              /\ Len(handed) = 3 /\ Len(outs) = 3 /\ Len(results) = 3
              /\ EndsWith(handed[1], <<"signout">>)
              /\ EndsWith(handed[2], <<"deprovision">>)
              /\ EndsWith(handed[3], <<"suspended", "on">>)
              /\ \A k \in 1..3 :
                    results[k] = StepLabel(k) \o
                        (IF hows[k].status = Some(0) THEN "Success"
                         ELSE "FAILED - " \o The(outs[k].error))
              /\ ret = "Offboarding complete for " \o p.email \o ":\n"
                       \o results[1] \o "\n" \o results[2] \o "\n" \o results[3]

C3_Witness ==
    /\ op = "offboard_user"
    /\ pc = "returned"
    /\ Kinds = <<"completed", "timeout", "completed">>
    /\ ~outs[1].success
    /\ outs[3].success

\* C4: at most one child is in flight; within offboard_user the deprovision child
\* runs only after signout has an outcome, and the suspend child only after signout
\* and deprovision both have one.
C4_Sequential ==
    /\ running <= 1
    /\ (op = "offboard_user" /\ pc = "wait") =>
          /\ EndsWith(Argv, <<"signout">>) => Len(outs) = 0
          /\ EndsWith(Argv, <<"deprovision">>) =>
                (Len(outs) = 1 /\ EndsWith(handed[1], <<"signout">>))
          /\ EndsWith(Argv, <<"suspended", "on">>) =>
                /\ Len(outs) = 2
                /\ EndsWith(handed[1], <<"signout">>)
                /\ EndsWith(handed[2], <<"deprovision">>)

C4_Witness ==
    /\ op = "offboard_user"
    /\ pc = "wait"
    /\ running = 1
    /\ EndsWith(Argv, <<"suspended", "on">>)

\* C5: no call of a catalog operation ends with an exception leaving the handler.
C5_NeverRaises == (op \in Tools) => pc # "raised"

\* C6: every argument list handed to subprocess.run begins with the token gam.
C6_BeginsWithGam ==
    \A i \in 1..Len(handed) : handed[i] # <<>> /\ handed[i][1] = "gam"

\* C7: an outcome that came from a timeout has success false, exit status -1 and an
\* error text naming the timeout in force, and the child is dead by then: no child
\* of the server is alive except the one a handler is waiting for.
C7_TimeoutKillsChild ==
    /\ running = (IF pc = "wait" THEN 1 ELSE 0)
    /\ \A k \in 1..Len(outs) :
          hows[k].kind = "timeout" =>
              /\ ~outs[k].success
              /\ outs[k].exit_code = -1
              /\ outs[k].output = ""
              /\ The(outs[k].error) = "Command timed out after " \o IntStr(p.timeout) \o " seconds"

C7_Witness ==
    /\ op = "offboard_user"
    /\ pc = "returned"
    /\ Kinds = <<"timeout", "timeout", "timeout">>
    /\ running = 0
    /\ nCalls >= 2

\* C8: for every outcome: success iff the child ran to completion with status 0;
\* error text present iff not success; exit status -1 when no child completed
\* (timeout, tool not found), the two error texts being different.
C8_OutcomeShape ==
    \A k \in 1..Len(outs) :
        /\ outs[k].success <=> hows[k].status = Some(0)
        /\ (outs[k].error # None) <=> ~outs[k].success
        /\ hows[k].status # None => outs[k].exit_code = The(hows[k].status)
        /\ hows[k].status = None => outs[k].exit_code = -1
        /\ hows[k].kind = "notfound" =>
              (Contains(The(outs[k].error), "not found")
                  /\ ~Contains(The(outs[k].error), "timed out"))
        /\ hows[k].kind = "timeout" =>
              (Contains(The(outs[k].error), "timed out")
                  /\ ~Contains(The(outs[k].error), "not found"))

C8_Witness ==
    /\ pc = "returned"
    /\ Kinds = <<"completed", "timeout", "notfound">>
    /\ hows[1].status = Some(2)

\* C9: a list_users command built from a query and an inactivity threshold carries
\* one query token: the caller's query, a space, lastLoginTime<cutoff, with
\* cutoff = today - threshold days.
C9_QueryAndCutoff ==
    (op = "list_users" /\ p.query # None /\ p.inactive_days # None /\ handed # <<>>) =>
        \E i \in 2..Len(handed[1]) :
            /\ handed[1][i - 1] = "query"
            /\ handed[1][i] = The(p.query) \o " lastLoginTime<"
                   \o isoformat(ord2ymd(ymd2ord(p.today) - The(p.inactive_days)))

\* C10: the list_users command has one issuspended predicate when a flag is set
\* and none otherwise; it is `true` when suspended_only is set (also together with
\* active_only) and `false` when only active_only is set.
C10_OneSuspensionPredicate ==
    (op = "list_users" /\ handed # <<>>) =>
        LET a   == handed[1]
            at  == {i \in 1..Len(a) : a[i] = "issuspended"}
        IN  /\ Cardinality(at) = (IF p.suspended_only \/ p.active_only THEN 1 ELSE 0)
            /\ \A i \in at :
                  /\ i < Len(a)
                  /\ a[i + 1] = (IF p.suspended_only THEN "true" ELSE "false")

C10_Witness ==
    /\ op = "list_users"
    /\ p.suspended_only
    /\ p.active_only
    /\ handed # <<>>
    /\ pc = "returned"


\* the five optional attributes of update_user, as the caller passed them
Attributes(q) ==
    <<q.first_name_opt, q.last_name_opt, q.org_unit, q.recovery_email, q.recovery_phone>>

\* C11: update_user called with every optional attribute absent returns the
\* "nothing to update" result and hands no command to a child process; called
\* with at least one attribute supplied it hands exactly one command over.
C11_NothingOrExactlyOne ==
    (op = "update_user" /\ pc # "idle") =>
        IF \A i \in 1..5 : Attributes(p)[i] = None
        THEN /\ pc = "returned"
             /\ ret = "Error: No attributes specified to update."
             /\ handed = <<>> /\ spawned = 0
        ELSE Len(handed) = 1


\* C12: add_group_member folds the role's case: a role that is MEMBER, MANAGER
\* or OWNER in any letter case reaches the tool as the lower-case keyword, in a
\* command of exactly seven tokens; any other role is rejected with a message
\* naming the accepted set, with no command string built and nothing launched.
C12_RoleNormalized ==
    (op = "add_group_member" /\ pc # "idle") =>
        IF lower(p.role) \in {"member", "manager", "owner"}
        THEN /\ Len(handed) = 1
             /\ handed[1] = <<"gam", "update", "group", p.group_email, "add",
                              lower(p.role), p.member_email>>
        ELSE /\ pc = "returned"
             /\ Contains(ret, "Must be MEMBER, MANAGER, or OWNER")
             /\ cmd = "" /\ handed = <<>> /\ spawned = 0

\* a mixed-case role was accepted and handed over in lower case
C12_Witness ==
    /\ op = "add_group_member" /\ p.role = "Owner"
    /\ pc = "wait"
    /\ handed[1][6] = "owner"

\* the command line create_user means to run: every parameter value one token
CreateUserArgv(q) ==
    <<"gam", "create", "user", q.email, "firstname", q.first_name,
      "lastname", q.last_name,
      "password", IF Truthy(q.password) THEN The(q.password) ELSE "random">>
    \o (IF Truthy(q.org_unit) THEN <<"org", The(q.org_unit)>> ELSE <<>>)
    \o (IF Truthy(q.recovery_email)
        THEN <<"recoveryemail", The(q.recovery_email)>> ELSE <<>>)

\* C13: every free-text value reaches the external tool as exactly one token:
\* create_user never fails to tokenize its command line, and the command it
\* hands over is the intended token list with first_name, last_name and
\* org_unit each in one token, whatever spaces or quotes they contain.
C13_FreeTextIsOneToken ==
    (op = "create_user" /\ pc # "idle") =>
        /\ ~(pc = "raised" /\ exc = "ValueError")
        /\ Len(handed) = 1
        /\ handed[1] = CreateUserArgv(p)

Has(a, t) == \E i \in 1..Len(a) : a[i] = t
HasPair(a, t, u) == \E i \in 1..(Len(a) - 1) : a[i] = t /\ a[i + 1] = u

\* the text values the caller passed
CallerTexts(q) ==
    {q.email, q.first_name, q.last_name, q.group_email, q.member_email, q.role,
     q.command}
    \cup q.password \cup q.org_unit \cup q.recovery_email \cup q.recovery_phone
    \cup q.first_name_opt \cup q.last_name_opt \cup q.query \cup q.fields \cup q.ou

\* no caller text spells the keyword, so a token equal to it is the builder's
Unmentioned(q, kw) == \A t \in CallerTexts(q) : ~Contains(t, kw)

\* text that is one shell word between double quotes
PlainText(t) == t # "" /\ ~Contains(t, "\"") /\ ~Contains(t, "\\")

OneCommandOps == Tools \ {"offboard_user"}
\* those whose last statement is `return format_result(result)`
NormalizedOps == {"list_users", "run_gam", "update_user"}

\* a call that ran its one command and returned
RanAndReturned == op \in OneCommandOps /\ pc = "returned" /\ Len(outs) = 1

\* what the normalizer makes of an outcome: the output, or the canned message
\* when the output is empty; on failure the prefix with exit status and error
IsNormalized(s, r) ==
    IF r.success
    THEN s = (IF r.output = "" THEN "Command completed successfully." ELSE r.output)
    ELSE s = "Error (exit " \o IntStr(r.exit_code) \o "): " \o OptStr(r.error)

====
